---- MODULE Spec2Model ----
(***************************************************************************)
(* Model of migrate.py: the migration ledger, the reconciler (is_pending,  *)
(* status_migrations), the lazy batch generators (load_migrations,         *)
(* pending_migrations) and the executor (apply_migrations,                 *)
(* execute_migration) talking to a transactional database session.         *)
(*                                                                         *)
(* A migration name is a natural number: n stands for the n-th file name   *)
(* of the directory in lexicographic order.  A statement is a sequence of  *)
(* characters.  The session is a transactional store: db is the committed  *)
(* database, work is what the open connection sees.                        *)
(***************************************************************************)
EXTENDS Integers, Sequences, FiniteSets, TLC

MaxMig == 3       \* number of migration files in the directory
MaxRuns == 2      \* number of command invocations in one behaviour

Names == 1..MaxMig

None == <<>>      \* Python None; Some(v) is the one-element tuple <<v>>
Some(v) == <<v>>

-----------------------------------------------------------------------------
(* Statements and the may-fail marker *)

\* \s of MAY_FAIL, over the alphabet of the model
IsSpace(c) == c = " "

\* position of the first "@" of q, 0 when q has none
FirstAt(q) ==
    IF \E j \in 1..Len(q) : q[j] = "@"
    THEN CHOOSE j \in 1..Len(q) : q[j] = "@" /\ \A k \in 1..(j - 1) : q[k] # "@"
    ELSE 0

\* start of the leftmost match of \s*@ that ends at position j
MatchStart(q, j) ==
    CHOOSE i \in 1..j : /\ \A k \in i..(j - 1) : IsSpace(q[k])
                        /\ (i = 1 \/ ~IsSpace(q[i - 1]))

\* real_query = MAY_FAIL.sub("", query, count=1): the leftmost match of
\* \s*@ is removed, wherever in the statement it stands
MAY_FAIL_sub(q) ==
    IF FirstAt(q) = 0 THEN q
    ELSE LET j == FirstAt(q)
             i == MatchStart(q, j)
         IN  SubSeq(q, 1, i - 1) \o SubSeq(q, j + 1, Len(q))

may_fail_never(q) == FALSE

\* may_fail = real_query != query
may_fail(q) == MAY_FAIL_sub(q) # q

\* the statement of the install migration that creates the ledger table,
\* and the one that drops it
CREATE_TABLE == <<"C">>
DROP_TABLE == <<"D">>

-----------------------------------------------------------------------------
(* Migration files, as read_migration returns them: section key -> list of *)
(* statements                                                              *)

\* dict.get(key, [])
Get(m, k) == IF k \in DOMAIN m THEN m[k] ELSE <<>>

\* the file written by the install command
InstallMigration == [up |-> << CREATE_TABLE >>, down |-> << DROP_TABLE >>]

\* a migration with all four sections, with a statement that starts with
\* the marker (after whitespace) and one that holds an "@" further on
FullMigration ==
    [prolog |-> << <<"p">> >>,
     up     |-> << <<"u", "@", "v">>, <<"w">> >>,
     down   |-> << <<" ", "@", "d">>, <<"e">> >>,
     epilog |-> << <<"q">> >>]

\* a migration with one statement each way
PlainMigration == [up |-> << <<"a">> >>, down |-> << <<"b">> >>]

\* the directory: the install migration has the first name, as the install
\* command is run first; the second file has all the sections, the others
\* are plain
Directory(n) ==
    IF n = 1 THEN InstallMigration
    ELSE IF n = 2 THEN FullMigration
    ELSE PlainMigration

\* template={} (the default of execute_migration and apply_migrations)
EmptyTemplate == <<>>

\* a template file given with --template
SomeTemplate ==
    [prolog |-> << <<"t">> >>,
     up     |-> << <<"g">> >>,
     down   |-> << <<"x">> >>,
     epilog |-> << <<"y">> >>]

Templates == {EmptyTemplate, SomeTemplate}

\* the database connectors the model tells apart: a transactional database
\* and FakeConnection
Drivers == {"mysql", "fake"}

RECURSIVE Join(_)
\* "\n".join(list)
Join(l) ==
    IF l = <<>> THEN <<>>
    ELSE IF Len(l) = 1 THEN l[1]
    ELSE l[1] \o <<"\n">> \o Join(Tail(l))

\* the bytes fed to the digest, in order
HashText(m) ==
    Join(Get(m, "prolog")) \o Join(Get(m, "up"))
        \o Join(Get(m, "down")) \o Join(Get(m, "epilog"))

\* sha256(...).hexdigest(): 64 hex characters, never the empty string, and
\* taken to be injective on the text
hexdigest(t) == <<"#">> \o t

hash_migration(m) == hexdigest(HashText(m))

-----------------------------------------------------------------------------
(* The database behind the session *)

NoRows == <<>>    \* the ledger table without a row

\* does the statement raise for a reason the model knows
MustRaise(d, q) ==
    \/ q = CREATE_TABLE /\ d.exists
    \/ q = DROP_TABLE /\ ~d.exists

\* cursor.execute(real_query) that succeeds
Execute(d, q) ==
    IF q = CREATE_TABLE THEN [d EXCEPT !.exists = TRUE, !.rows = NoRows]
    ELSE IF q = DROP_TABLE THEN [d EXCEPT !.exists = FALSE, !.rows = NoRows]
    ELSE [d EXCEPT !.data = @ \cup {q}]

\* truth value of a Python str
Truthy(s) == Len(s) > 0

\* SELECT name, applied, hash, %s as hash_consistent ... WHERE name=%s
\* with parameters (h, name): the fourth column is the parameter h itself
SelectStatus(d, name, h) ==
    IF name \in DOMAIN d.rows
    THEN << name, d.rows[name].applied, d.rows[name].hash, h >>
    ELSE None

\* _migration_status: (h, row or None); raises when the table is missing
migration_status(d, name, migration) ==
    << hash_migration(migration),
       SelectStatus(d, name, hash_migration(migration)) >>

is_pending_drift(d, name, migration) ==
    LET m == migration_status(d, name, migration)[2]
    IN  IF m = None THEN TRUE ELSE m[3] # m[4]

\* is_pending: True exactly when no row was fetched
is_pending(d, name, migration) ==
    LET m == migration_status(d, name, migration)[2]
    IN  m = None

\* the "Hash is inconsistent" warning of is_pending
is_pending_warns(d, name, migration) ==
    LET m == migration_status(d, name, migration)[2]
    IN  m # None /\ ~Truthy(m[4])

\* the status letter of status_migrations
status_letter(d, name, migration) ==
    LET m == migration_status(d, name, migration)[2]
    IN  IF m = None THEN "P"
        ELSE IF ~Truthy(m[4]) THEN "D"
        ELSE "A"

\* rows affected by INSERT ... ON DUPLICATE KEY UPDATE
InsertAffected(d, name, h, now) ==
    IF name \notin DOMAIN d.rows THEN 1
    ELSE IF d.rows[name] = [hash |-> h, applied |-> now] THEN 0
    ELSE 2

InsertRow(d, name, h, now) ==
    [d EXCEPT !.rows = [n \in DOMAIN d.rows \cup {name} |->
                           IF n = name THEN [hash |-> h, applied |-> now]
                           ELSE d.rows[n]]]

\* rows affected by DELETE ... WHERE name=%s
DeleteAffected(d, name) == IF name \in DOMAIN d.rows THEN 1 ELSE 0

DeleteRow_all(d, name) == [d EXCEPT !.rows = NoRows]

DeleteRow(d, name) ==
    [d EXCEPT !.rows = [n \in DOMAIN d.rows \ {name} |-> d.rows[n]]]

-----------------------------------------------------------------------------
(* Candidate lists and filters *)

RECURSIVE Sorted(_)
\* migrations.sort() of list_directory
Sorted(S) ==
    IF S = {} THEN <<>>
    ELSE LET m == CHOOSE a \in S : \A b \in S : a <= b
         IN  <<m>> \o Sorted(S \ {m})

\* ORDER BY name DESC alone
Before_name(rows, a, b) == a > b

\* ORDER BY applied DESC, name DESC
Before(rows, a, b) ==
    \/ rows[a].applied > rows[b].applied
    \/ rows[a].applied = rows[b].applied /\ a > b

RECURSIVE OrderDesc(_, _)
OrderDesc(rows, S) ==
    IF S = {} THEN <<>>
    ELSE LET m == CHOOSE a \in S : \A b \in S \ {a} : Before(rows, a, b)
         IN  <<m>> \o OrderDesc(rows, S \ {m})

\* list_migrations(cnx, reverse=True)
list_migrations(d) == OrderDesc(d.rows, DOMAIN d.rows)

\* the tuples _parse_migrations_rev returns
FilterAll == [start_at |-> None, stop_at |-> None, includes |-> None, count |-> None]
FilterCount(n) == [FilterAll EXCEPT !.count = Some(n)]
FilterNames(l) == [FilterAll EXCEPT !.includes = Some(l)]
FilterRange(a, b) == [FilterAll EXCEPT !.start_at = a, !.stop_at = b]

Filters == {FilterAll, FilterCount(1), FilterNames(<< MaxMig >>)}

In_first(n, l) == l[1] = n

\* "name in includes", includes a list
In(n, l) == \E i \in DOMAIN l : l[i] = n

Selected_exclusive(f, n, dn) ==
    /\ IF f.start_at = None THEN TRUE ELSE n > f.start_at[1]
    /\ IF f.stop_at = None THEN TRUE ELSE n <= f.stop_at[1]
    /\ IF f.includes = None THEN TRUE
       ELSE IF Len(f.includes[1]) = 0 THEN TRUE ELSE In(n, f.includes[1])
    /\ IF f.count = None THEN TRUE ELSE dn < f.count[1]

\* the condition of load_migrations on one candidate
Selected(f, n, dn) ==
    /\ IF f.start_at = None THEN TRUE ELSE n >= f.start_at[1]
    /\ IF f.stop_at = None THEN TRUE ELSE n <= f.stop_at[1]
    /\ IF f.includes = None THEN TRUE
       ELSE IF Len(f.includes[1]) = 0 THEN TRUE ELSE In(n, f.includes[1])
    /\ IF f.count = None THEN TRUE ELSE dn < f.count[1]

-----------------------------------------------------------------------------
(* State *)

VARIABLES
    files,            \* the directory: name -> sections of the file
    db,               \* the committed database
    work,             \* the database as the open connection sees it
    pc,               \* "idle", "next", "exec" or "done"
    driver,           \* "mysql" or "fake" (--driver)
    command,          \* "up", "down" or "status"
    one_transaction,  \* parameter of apply_migrations
    template,         \* the template main read
    filters,          \* the parsed filter
    cand,             \* the candidate names of the generator
    ci,               \* position of the generator in cand
    done,             \* the counter of load_migrations
    name,             \* the migration being applied
    qi,               \* position of execute_migration in its statements
    calls,            \* what the invocation asked of the session and printed,
                      \* in order; an execute entry holds the statement as
                      \* written in the file
    clock,            \* now() of the database
    runs,             \* invocations started
    db0,              \* the committed database when the invocation started
    prev,             \* the previous invocation, when it was an Up of one
                      \* migration
    crashed           \* an exception left the invocation

\* Kind.UP.value, Kind.DOWN.value
kind == command

\* FakeConnection: execute returns False and never raises, fetchone returns
\* None, fetchall returns []; to its caller it is a database whose tables
\* are empty and whose statements affect no row
FakeDb == [exists |-> TRUE, rows |-> NoRows, data |-> {}]

\* the database the cursor of the invocation reads
Session == IF driver = "fake" THEN FakeDb ELSE work

\* cursor.execute(real_query) raises for a reason the model knows
Raises(q) == driver # "fake" /\ MustRaise(work, q)

Entry(op, n, q, res) == [op |-> op, name |-> n, q |-> q, res |-> res]

\* the names printed by apply_migrations, in order
RECURSIVE Printed(_)
Printed(c) ==
    IF c = <<>> THEN <<>>
    ELSE (IF Head(c).op = "print" THEN << Head(c).name >> ELSE <<>>)
             \o Printed(Tail(c))

\* the printed names that a later commit made durable, in order
RECURSIVE CommittedFrom(_, _)
CommittedFrom(c, i) ==
    IF i > Len(c) THEN <<>>
    ELSE (IF c[i].op = "print" /\ \E j \in (i + 1)..Len(c) : c[j].op = "commit"
          THEN << c[i].name >> ELSE <<>>)
             \o CommittedFrom(c, i + 1)

Committed(c) == CommittedFrom(c, 1)

\* list_directory(directory)
list_directory == Sorted(DOMAIN files)

\* read_migration(name, directory)
read_migration(n) == files[n]

\* the argument apply_migrations gives execute_migration for template:
\* none, so the parameter keeps its default
template_argument(t) == EmptyTemplate

\* the itertools.chain of execute_migration
chain(migration, k, t) ==
    Get(t, "prolog") \o Get(migration, "prolog")
        \o Get(t, k) \o Get(migration, k)
        \o Get(migration, "epilog") \o Get(t, "epilog")

\* the statements execute_migration iterates over for the current migration
Queries == chain(read_migration(name), kind, template_argument(template))

\* the state of the commands that do not write the ledger
VARIABLES
    migrations_arg,   \* args.migrations, the filter tokens of the command line
    found,            \* the list found of status_migrations
    file,             \* the lines of the file read_migration reads
    pos,              \* position of read_migration in the file
    migration,        \* the dict read_migration builds
    current,          \* the lines buffered by read_migration
    key,              \* the active section key of read_migration
    existings,        \* the tables SHOW TABLES lists, in its order
    selection,        \* the table arguments of dump
    options,          \* the keyword arguments of dump
    outputs,          \* what dump printed: output -> lines
    todo,             \* the tables dump has still to write
    counter           \* the counter of dump

ledgerVars ==
    << files, db, work, pc, driver, command, one_transaction, template, filters,
       cand, ci, done, name, qi, calls, clock, runs, db0, prev, crashed >>

readVars == << file, pos, migration, current, key >>

dumpVars == << existings, selection, options, outputs, todo, counter >>

toolVars == << migrations_arg, found, readVars, dumpVars >>

vars == << ledgerVars, toolVars >>

\* no command of the second group has run
ReadIdle ==
    /\ file = <<>>
    /\ pos = 1
    /\ migration = <<>>
    /\ current = <<>>
    /\ key = "prolog"

DumpIdle ==
    /\ existings = <<>>
    /\ selection = <<>>
    /\ options = <<>>
    /\ outputs = <<>>
    /\ todo = <<>>
    /\ counter = 1

ToolsIdle ==
    /\ migrations_arg = None
    /\ found = <<>>
    /\ ReadIdle
    /\ DumpIdle

\* nothing is remembered of the previous invocation
NoSummary ==
    [command |-> "none", committed |-> <<>>,
     before |-> [exists |-> FALSE, rows |-> NoRows, data |-> {}]]

\* what is remembered of the invocation that just ended: an Up that
\* committed one migration, and the database it started from
Summary ==
    IF command = "up" /\ Len(Committed(calls)) = 1
    THEN [command |-> command, committed |-> Committed(calls), before |-> db0]
    ELSE NoSummary

\* the states a ledger row of n can be in when the run starts: recorded with
\* the content the file has now, or with a content it had before an edit
\* (one file at most was edited)
InitRows ==
    { t \in UNION { [S -> {"same", "other"}] : S \in SUBSET Names } :
        Cardinality({ n \in DOMAIN t : t[n] = "other" }) <= 1 }

InitHash(f, n, tag) ==
    IF tag = "same" THEN hash_migration(f[n])
    ELSE hexdigest(<<"o", "l", "d">>)

Init ==
    /\ files = [n \in Names |-> Directory(n)]
    /\ \E e \in BOOLEAN, tags \in InitRows :
          /\ ~e => DOMAIN tags = {}
          /\ db = [exists |-> e,
                   rows |-> [n \in DOMAIN tags |->
                                [hash |-> InitHash(files, n, tags[n]),
                                 applied |-> 0]],
                   data |-> {}]
    /\ work = db
    /\ pc = "idle"
    /\ driver = "mysql"
    /\ command = "up"
    /\ one_transaction = FALSE
    /\ template = EmptyTemplate
    /\ filters = FilterAll
    /\ cand = <<>>
    /\ ci = 1
    /\ done = 0
    /\ name = 0
    /\ qi = 1
    /\ calls = <<>>
    /\ clock = 0
    /\ runs = 0
    /\ db0 = db
    /\ prev = NoSummary
    /\ crashed = FALSE
    /\ ToolsIdle

\* the start of any invocation: connect(args), a new second on the clock
Start(cmd, drv, f) ==
    /\ pc \in {"idle", "done"}
    /\ runs < MaxRuns
    /\ driver' = drv
    /\ runs' = runs + 1
    /\ clock' = clock + 1
    /\ command' = cmd
    /\ filters' = f
    /\ db0' = db
    /\ prev' = IF pc = "done" THEN Summary ELSE prev
    /\ done' = 0
    /\ ci' = 1
    /\ name' = 0
    /\ qi' = 1
    /\ UNCHANGED << toolVars, files, db, work >>

\* main, command up: apply_migrations over pending_migrations
main_up(drv, ot, t, f) ==
    /\ Start("up", drv, f)
    /\ one_transaction' = ot
    /\ template' = t
    /\ cand' = list_directory
    /\ calls' = IF ot THEN << Entry("begin", 0, <<>>, "ok") >> ELSE <<>>
    /\ crashed' = FALSE
    /\ pc' = "next"

\* main, command rollback: apply_migrations over the names of the ledger
main_down(drv, ot, t, f) ==
    /\ Start("down", drv, f)
    /\ one_transaction' = ot
    /\ template' = t
    /\ calls' = IF ot THEN << Entry("begin", 0, <<>>, "ok") >> ELSE <<>>
    /\ IF drv = "fake" \/ work.exists
       THEN /\ cand' = list_migrations(IF drv = "fake" THEN FakeDb ELSE work)
            /\ crashed' = FALSE
            /\ pc' = "next"
       ELSE \* the SELECT of list_migrations raises, nothing catches it
            /\ cand' = <<>>
            /\ crashed' = TRUE
            /\ pc' = "done"

RECURSIVE StatusLines(_, _, _, _)
\* the lines status_migrations prints for the candidates l, show_missings off
StatusLines(d, f, l, dn) ==
    IF l = <<>> THEN <<>>
    ELSE IF Selected(f, Head(l), dn)
         THEN << Entry("status", Head(l), <<>>,
                       status_letter(d, Head(l), read_migration(Head(l)))) >>
                  \o StatusLines(d, f, Tail(l), dn + 1)
         ELSE StatusLines(d, f, Tail(l), dn)

\* main, command status
main_status(drv, f) ==
    /\ Start("status", drv, f)
    /\ UNCHANGED << one_transaction, template >>
    /\ cand' = list_directory
    /\ IF drv = "fake" \/ work.exists
          \/ StatusLines(work, f, list_directory, 0) = <<>>
       THEN /\ calls' = StatusLines(IF drv = "fake" THEN FakeDb ELSE work,
                                    f, list_directory, 0)
            /\ crashed' = FALSE
       ELSE \* the SELECT of _migration_status raises at the first candidate
            /\ calls' = <<>>
            /\ crashed' = TRUE
    /\ pc' = "done"

-----------------------------------------------------------------------------
(* The generators: load_migrations under pending_migrations (up) or alone  *)
(* (down).  They run lazily, one candidate for each turn of the loop of    *)
(* apply_migrations.                                                       *)

Append2(c, a, b) == Append(Append(c, a), b)

\* the cnx.begin() at the top of the loop body
LoopBegin(c) ==
    IF one_transaction THEN c ELSE Append(c, Entry("begin", 0, <<>>, "ok"))

\* the loop body of apply_migrations is entered with migration n
Yield(n, c) ==
    /\ name' = n
    /\ qi' = 1
    /\ calls' = LoopBegin(c)
    /\ pc' = "exec"
    /\ UNCHANGED << db, work, crashed >>

\* load_migrations: the candidate does not satisfy the filter
load_migrations_skip ==
    /\ pc = "next"
    /\ ci <= Len(cand)
    /\ ~Selected(filters, cand[ci], done)
    /\ ci' = ci + 1
    /\ UNCHANGED << toolVars, files, db, work, pc, driver, command, one_transaction, template,
                    filters, cand, done, name, qi, calls, clock, runs, db0,
                    prev, crashed >>

\* load_migrations yields to apply_migrations (command rollback)
load_migrations_yield ==
    /\ pc = "next"
    /\ command = "down"
    /\ ci <= Len(cand)
    /\ Selected(filters, cand[ci], done)
    /\ done' = done + 1
    /\ ci' = ci + 1
    /\ Yield(cand[ci], calls)
    /\ UNCHANGED << toolVars, files, driver, command, one_transaction, template, filters, cand,
                    clock, runs, db0, prev >>

\* pending_migrations: is_pending raised, the migration is yielded
pending_migrations_except_skip(n, c) ==
    /\ calls' = Append(c, Entry("lookup", n, <<>>, "raise"))
    /\ UNCHANGED << db, work, pc, name, qi, crashed >>

pending_migrations_except(n, c) ==
    Yield(n, Append(c, Entry("lookup", n, <<>>, "raise")))

\* pending_migrations: is_pending returned True
pending_migrations_yield ==
    /\ pc = "next"
    /\ command = "up"
    /\ ci <= Len(cand)
    /\ Selected(filters, cand[ci], done)
    /\ Session.exists
    /\ is_pending(Session, cand[ci], read_migration(cand[ci]))
    /\ done' = done + 1
    /\ ci' = ci + 1
    /\ Yield(cand[ci], Append(calls, Entry("lookup", cand[ci], <<>>, "pending")))
    /\ UNCHANGED << toolVars, files, driver, command, one_transaction, template, filters, cand,
                    clock, runs, db0, prev >>

\* pending_migrations: the ledger table is missing
pending_migrations_install ==
    /\ pc = "next"
    /\ command = "up"
    /\ ci <= Len(cand)
    /\ Selected(filters, cand[ci], done)
    /\ ~Session.exists
    /\ done' = done + 1
    /\ ci' = ci + 1
    /\ pending_migrations_except(cand[ci], calls)
    /\ UNCHANGED << toolVars, files, driver, command, one_transaction, template, filters, cand,
                    clock, runs, db0, prev >>

\* pending_migrations: is_pending returned False, "already applied"
pending_migrations_applied ==
    /\ pc = "next"
    /\ command = "up"
    /\ ci <= Len(cand)
    /\ Selected(filters, cand[ci], done)
    /\ Session.exists
    /\ ~is_pending(Session, cand[ci], read_migration(cand[ci]))
    /\ done' = done + 1
    /\ ci' = ci + 1
    /\ calls' = Append(calls, Entry("lookup", cand[ci], <<>>,
                   IF is_pending_warns(Session, cand[ci], read_migration(cand[ci]))
                   THEN "warning" ELSE "applied"))
    /\ UNCHANGED << toolVars, files, db, work, pc, driver, command, one_transaction, template,
                    filters, cand, name, qi, clock, runs, db0, prev, crashed >>

\* the loop of apply_migrations ends: the closing commit of one_transaction
apply_migrations_end ==
    /\ pc = "next"
    /\ ci > Len(cand)
    /\ IF one_transaction
       THEN /\ calls' = Append(calls, Entry("commit", 0, <<>>, "ok"))
            /\ db' = work
       ELSE UNCHANGED << calls, db >>
    /\ pc' = "done"
    /\ UNCHANGED << toolVars, files, work, driver, command, one_transaction, template, filters,
                    cand, ci, done, name, qi, clock, runs, db0, prev, crashed >>

-----------------------------------------------------------------------------
(* execute_migration, one statement for each step *)

\* the statement succeeds
execute_ok ==
    /\ pc = "exec"
    /\ qi <= Len(Queries)
    /\ ~Raises(MAY_FAIL_sub(Queries[qi]))
    /\ work' = IF driver = "fake" THEN work
               ELSE Execute(work, MAY_FAIL_sub(Queries[qi]))
    /\ calls' = Append(calls, Entry("execute", name, Queries[qi], "ok"))
    /\ qi' = qi + 1
    /\ UNCHANGED << toolVars, files, db, pc, driver, command, one_transaction, template, filters,
                    cand, ci, done, name, clock, runs, db0, prev, crashed >>

\* the statement raises and may_fail is set: warning, next statement
execute_tolerated ==
    /\ pc = "exec"
    /\ qi <= Len(Queries)
    /\ driver # "fake"
    /\ may_fail(Queries[qi])
    /\ calls' = Append(calls, Entry("execute", name, Queries[qi], "raise"))
    /\ qi' = qi + 1
    /\ UNCHANGED << toolVars, files, db, work, pc, driver, command, one_transaction, template,
                    filters, cand, ci, done, name, clock, runs, db0, prev,
                    crashed >>

\* what apply_migrations does when execute_migration returned False, but
\* with the commented-out continue_on_failure
execute_failed_continue ==
    /\ calls' = Append2(calls,
                    Entry("execute", name, Queries[qi], "raise"),
                    Entry("rollback", 0, <<>>, "ok"))
    /\ work' = db
    /\ pc' = "next"

\* the statement raises and may_fail is not set: execute_migration returns
\* False, apply_migrations rolls back and returns
execute_failed ==
    /\ calls' = Append2(calls,
                    Entry("execute", name, Queries[qi], "raise"),
                    Entry("rollback", 0, <<>>, "ok"))
    /\ work' = db
    /\ pc' = "done"

execute_abort ==
    /\ pc = "exec"
    /\ qi <= Len(Queries)
    /\ driver # "fake"
    /\ ~may_fail(Queries[qi])
    /\ execute_failed
    /\ UNCHANGED << toolVars, files, db, driver, command, one_transaction, template, filters,
                    cand, ci, done, name, qi, clock, runs, db0, prev, crashed >>

-----------------------------------------------------------------------------
(* The ledger write, the print and the commit of apply_migrations *)

\* the ledger statement of the direction
LedgerOp == IF kind = "up" THEN "insert" ELSE "delete"

\* rows the ledger statement affects
LedgerAffected ==
    IF driver = "fake" THEN 0
    ELSE IF kind = "up"
    THEN InsertAffected(work, name, hash_migration(read_migration(name)), clock)
    ELSE DeleteAffected(work, name)

\* the database after the ledger statement
LedgerWritten ==
    IF kind = "up"
    THEN InsertRow(work, name, hash_migration(read_migration(name)), clock)
    ELSE DeleteRow(work, name)

commit_each_always(ot) == TRUE

\* "if not one_transaction: cnx.commit()"
commit_each(ot) == ~ot

\* the ledger statement affected a row: print, and commit when each
\* migration has its own transaction
record_ok ==
    /\ pc = "exec"
    /\ qi > Len(Queries)
    /\ Session.exists
    /\ LedgerAffected > 0
    /\ work' = LedgerWritten
    /\ IF commit_each(one_transaction)
       THEN /\ calls' = Append(Append2(calls,
                                   Entry(LedgerOp, name, <<>>, "ok"),
                                   Entry("print", name, <<>>, "ok")),
                               Entry("commit", 0, <<>>, "ok"))
            /\ db' = work'
       ELSE /\ calls' = Append2(calls,
                            Entry(LedgerOp, name, <<>>, "ok"),
                            Entry("print", name, <<>>, "ok"))
            /\ UNCHANGED db
    /\ pc' = "next"
    /\ UNCHANGED << toolVars, files, driver, command, one_transaction, template, filters, cand,
                    ci, done, name, qi, clock, runs, db0, prev, crashed >>

\* the ledger statement affected no row: rollback and return
record_zero ==
    /\ pc = "exec"
    /\ qi > Len(Queries)
    /\ Session.exists
    /\ LedgerAffected = 0
    /\ calls' = Append2(calls,
                    Entry(LedgerOp, name, <<>>, "zero"),
                    Entry("rollback", 0, <<>>, "ok"))
    /\ work' = db
    /\ pc' = "done"
    /\ UNCHANGED << toolVars, files, db, driver, command, one_transaction, template, filters,
                    cand, ci, done, name, qi, clock, runs, db0, prev, crashed >>

\* the ledger statement raises (no ledger table): nothing in
\* insert_migration, delete_migration or apply_migrations catches it; the
\* connection is closed with its transaction open
record_raise ==
    /\ pc = "exec"
    /\ qi > Len(Queries)
    /\ ~Session.exists
    /\ calls' = Append(calls, Entry(LedgerOp, name, <<>>, "raise"))
    /\ work' = db
    /\ crashed' = TRUE
    /\ pc' = "done"
    /\ UNCHANGED << toolVars, files, db, driver, command, one_transaction, template, filters,
                    cand, ci, done, name, qi, clock, runs, db0, prev >>

-----------------------------------------------------------------------------

\* the calls of apply_migrations: main gives the template it read and leaves
\* one_transaction to its default; a call with one_transaction=True gives
\* no template
Calls ==
    [one_transaction : {FALSE}, template : Templates]
        \cup [one_transaction : {TRUE}, template : {EmptyTemplate}]

Next ==
    \/ \E drv \in Drivers, c \in Calls, f \in Filters :
          main_up(drv, c.one_transaction, c.template, f)
    \/ \E drv \in Drivers, c \in Calls, f \in Filters :
          main_down(drv, c.one_transaction, c.template, f)
    \/ \E drv \in Drivers, f \in Filters : main_status(drv, f)
    \/ load_migrations_skip
    \/ load_migrations_yield
    \/ pending_migrations_yield
    \/ pending_migrations_install
    \/ pending_migrations_applied
    \/ apply_migrations_end
    \/ execute_ok
    \/ execute_tolerated
    \/ execute_abort
    \/ record_ok
    \/ record_zero
    \/ record_raise

Spec == Init /\ [][Next]_vars

-----------------------------------------------------------------------------
(* Properties *)

\* the file format's may-fail flag: the first non-whitespace character of
\* the statement is the marker
StartsWithMarker(q) ==
    \E j \in 1..Len(q) : q[j] = "@" /\ \A k \in 1..(j - 1) : IsSpace(q[k])

\* the statements execute_migration sent for migration n so far, as written
SentOf(n) ==
    LET OfN(e) == e.op = "execute" /\ e.name = n
        sel == SelectSeq(calls, OfN)
    IN  [i \in 1..Len(sel) |-> sel[i].q]

\* execute_migration returned False at entry i: the statement raised and
\* the rollback of apply_migrations follows
FailedAt(i) ==
    /\ calls[i].op = "execute"
    /\ calls[i].res = "raise"
    /\ i < Len(calls)
    /\ calls[i + 1].op = "rollback"

\* the invocation ended on a failure
RunFailed == crashed \/ \E i \in DOMAIN calls : calls[i].op = "rollback"

\* C1: with one transaction for each migration, when migration k of an Up
\* batch fails, the migrations printed before it are committed and recorded
\* with their hash, k has no ledger row, and nothing of the later
\* migrations is applied or recorded: the failure ends the invocation.
C1_PartialBatch ==
    \A i \in DOMAIN calls :
        (command = "up" /\ ~one_transaction /\ FailedAt(i)) =>
            LET k == calls[i].name IN
            /\ ~StartsWithMarker(calls[i].q)
            /\ pc = "done"
            /\ Len(calls) = i + 1
            /\ work = db
            /\ k \notin DOMAIN db.rows
            /\ \A j \in 1..i :
                  /\ calls[j].op = "print" =>
                        /\ calls[j].name \in DOMAIN db.rows
                        /\ db.rows[calls[j].name].hash
                              = hash_migration(files[calls[j].name])
                  /\ (calls[j].op = "execute" /\ calls[j].res = "ok"
                        /\ calls[j].name # k
                        /\ MAY_FAIL_sub(calls[j].q) # CREATE_TABLE) =>
                        MAY_FAIL_sub(calls[j].q) \in db.data
            /\ \A n \in Names :
                  n > k =>
                      /\ \A j \in DOMAIN calls : calls[j].name # n
                      /\ n \in DOMAIN db.rows <=> n \in DOMAIN db0.rows
                      /\ n \in DOMAIN db.rows => db.rows[n] = db0.rows[n]

\* a migration that is neither the first nor the last of its batch failed
C1_Witness ==
    /\ command = "up"
    /\ ~one_transaction
    /\ \E i \in DOMAIN calls :
          /\ FailedAt(i)
          /\ calls[i].name < MaxMig
          /\ \E j \in 1..i : calls[j].op = "print"

\* C2: with one transaction for the batch, an invocation that ended on a
\* failure leaves the committed database, ledger included, as it was when
\* the invocation started.
C2_SingleTransaction ==
    (pc = "done" /\ one_transaction /\ command \in {"up", "down"} /\ RunFailed)
        => db = db0 /\ work = db0

\* a batch in one transaction failed after a migration had been printed
C2_Witness ==
    /\ pc = "done"
    /\ one_transaction
    /\ driver = "mysql"
    /\ Printed(calls) # <<>>
    /\ \E i \in DOMAIN calls : calls[i].op = "rollback"

\* C3: when the invocation has ended, the names printed are the names of
\* migrations whose transaction was committed, in commit order; an Up name
\* that was printed has its row in the committed ledger.
C3_EmittedAreCommitted ==
    pc = "done" =>
        /\ Printed(calls) = Committed(calls)
        /\ (driver = "mysql" /\ command = "up") =>
              \A i \in DOMAIN calls :
                  calls[i].op = "print" => calls[i].name \in DOMAIN db.rows

\* C4: when execute_migration has sent the last statement of a migration
\* and a non-empty template was given, the statements sent are
\* template-prolog, migration-prolog, template-<direction>,
\* migration-<direction>, migration-epilog, template-epilog, in this order.
C4_TemplateOrder ==
    (pc = "exec" /\ qi > Len(Queries) /\ template # EmptyTemplate) =>
        SentOf(name) = chain(read_migration(name), kind, template)

\* C5: the ledger write of a migration comes after all the statements of
\* the migration and before the commit; when it affects no row or raises,
\* a rollback follows, the name is not printed and the invocation ends.
C5_LedgerWrite ==
    \A i \in DOMAIN calls :
        calls[i].op \in {"insert", "delete"} =>
            /\ \A j \in DOMAIN calls :
                  (calls[j].op = "execute" /\ calls[j].name = calls[i].name)
                      => j < i
            /\ \A j \in 1..i : calls[j].op = "commit" => one_transaction = FALSE
            /\ calls[i].res = "ok" =>
                  /\ Len(calls) > i
                  /\ calls[i + 1] = Entry("print", calls[i].name, <<>>, "ok")
                  /\ ~one_transaction =>
                        Len(calls) > i + 1 /\ calls[i + 2].op = "commit"
            /\ calls[i].res # "ok" =>
                  /\ Len(calls) = i + 1
                  /\ calls[i + 1].op = "rollback"
                  /\ pc = "done"
                  /\ \A j \in DOMAIN calls :
                        calls[j].op = "print" => calls[j].name # calls[i].name

\* the statements execute_migration iterates over for migration n
QueriesOf(n) == chain(read_migration(n), kind, template_argument(template))

\* a statement of n that starts with the marker raised
MarkedRaised(n) ==
    \E i \in DOMAIN calls :
        /\ calls[i].op = "execute" /\ calls[i].name = n
        /\ calls[i].res = "raise" /\ StartsWithMarker(calls[i].q)

\* a statement of n that does not start with the marker raised
UnmarkedRaised(n) ==
    \E i \in DOMAIN calls :
        /\ calls[i].op = "execute" /\ calls[i].name = n
        /\ calls[i].res = "raise" /\ ~StartsWithMarker(calls[i].q)

\* C6: a statement flagged may-fail that raises is not followed by a
\* rollback, execute_migration goes on with the next statement; a migration
\* whose only failures are of flagged statements has all its statements
\* sent in order, gets its ledger write, and with a successful ledger write
\* is printed and, with its own transaction, committed.
C6_MayFailContinues ==
    /\ \A i \in DOMAIN calls :
          (calls[i].op = "execute" /\ calls[i].res = "raise"
              /\ StartsWithMarker(calls[i].q)) =>
              /\ i < Len(calls) => calls[i + 1].op # "rollback"
              /\ i = Len(calls) => pc = "exec" /\ name = calls[i].name
    /\ \A n \in Names :
          (MarkedRaised(n) /\ ~UnmarkedRaised(n) /\ (pc # "exec" \/ name # n)) =>
              /\ SentOf(n) = QueriesOf(n)
              /\ \E i \in DOMAIN calls :
                    /\ calls[i].op = LedgerOp
                    /\ calls[i].name = n
                    /\ calls[i].res = "ok" =>
                          /\ calls[i + 1] = Entry("print", n, <<>>, "ok")
                          /\ ~one_transaction =>
                                /\ calls[i + 2].op = "commit"
                                /\ command = "up" => n \in DOMAIN db.rows
                                /\ command = "down" => n \notin DOMAIN db.rows

\* a flagged statement raised, a later statement of the same migration was
\* executed and the migration was printed and committed
C6_Witness ==
    /\ ~one_transaction
    /\ \E i, j, k \in DOMAIN calls :
          /\ i < j /\ j < k
          /\ calls[i].op = "execute" /\ calls[i].res = "raise"
          /\ StartsWithMarker(calls[i].q)
          /\ calls[j].op = "execute" /\ calls[j].name = calls[i].name
          /\ calls[j].res = "ok"
          /\ calls[k].op = "commit"
          /\ calls[k - 1] = Entry("print", calls[i].name, <<>>, "ok")

\* the classification of the reconciler, from the stored and the computed hash
Classify(rows, n) ==
    IF n \notin DOMAIN rows THEN "P"
    ELSE IF rows[n].hash # hash_migration(files[n]) THEN "D"
    ELSE "A"

\* C7: the status command reports P exactly for a name without a ledger
\* row, D exactly for a row whose stored hash differs from the computed
\* hash and A exactly for a row whose stored hash equals it; on the apply
\* path the warning is logged exactly for the rows whose hash differs.
C7_Classification ==
    /\ (pc = "done" /\ command = "status" /\ driver = "mysql") =>
          \A i \in DOMAIN calls :
              calls[i].res = Classify(db.rows, calls[i].name)
    /\ (command = "up" /\ driver = "mysql") =>
          \A i \in DOMAIN calls :
              (calls[i].op = "lookup" /\ calls[i].res \in {"applied", "warning"}) =>
                  (calls[i].res = "warning"
                      <=> Classify(db0.rows, calls[i].name) = "D")

\* C8: the migration an Up batch is executing has no row in the ledger the
\* session reads; a candidate that has a row, with the same hash or not, is
\* skipped, nothing of it is sent, and the batch goes on to the next
\* candidate (it ends only when the candidates are exhausted).
C8_NeverReapplied ==
    /\ (pc = "exec" /\ command = "up") => name \notin DOMAIN Session.rows
    /\ \A i \in DOMAIN calls :
          (calls[i].op = "lookup" /\ calls[i].res \in {"applied", "warning"}) =>
              /\ \A j \in DOMAIN calls :
                    calls[j].name = calls[i].name => j = i
              /\ i = Len(calls) =>
                    \/ pc = "next"
                    \/ pc = "done" /\ ci > Len(cand) /\ ~RunFailed
              /\ driver = "mysql" => calls[i].name \in DOMAIN db0.rows

\* a drifted migration was skipped and a later migration was executed
C8_Witness ==
    /\ command = "up"
    /\ driver = "mysql"
    /\ \E i, j \in DOMAIN calls :
          /\ i < j
          /\ calls[i].op = "lookup"
          /\ calls[i].res \in {"applied", "warning"}
          /\ Classify(db0.rows, calls[i].name) = "D"
          /\ calls[j].op = "execute"

\* is n the first candidate of the directory that the filter selects
FirstSelected(n) ==
    /\ n \in Names
    /\ Selected(filters, n, 0)
    /\ \A m \in Names : m < n => ~Selected(filters, m, 0)

\* C9: a lookup that raises because the ledger table is missing yields the
\* candidate; an Up batch started without ledger table whose first
\* migration is the one that creates the table, and whose statements do not
\* raise, ends with the table created and the migration recorded in it,
\* committed (in one_transaction mode: when the rest of the batch succeeds).
C9_Bootstrap ==
    /\ \A i \in DOMAIN calls :
          (calls[i].op = "lookup" /\ calls[i].res = "raise" /\ i = Len(calls))
              => pc = "exec" /\ name = calls[i].name
    /\ \A n \in Names :
          (/\ pc = "done" /\ command = "up" /\ driver = "mysql"
           /\ ~db0.exists
           /\ FirstSelected(n)
           /\ Get(files[n], "up") = << CREATE_TABLE >>
           /\ \A i \in DOMAIN calls :
                 calls[i].name = n => calls[i].res # "raise" \/ calls[i].op = "lookup"
           /\ one_transaction => ~RunFailed) =>
              /\ db.exists
              /\ n \in DOMAIN db.rows
              /\ db.rows[n].hash = hash_migration(files[n])
              /\ \E i \in DOMAIN calls : calls[i] = Entry("print", n, <<>>, "ok")

\* an Up invocation that found no ledger table has ended with the table
\* created and its migration recorded
C9_Witness ==
    /\ pc = "done"
    /\ command = "up"
    /\ ~db0.exists
    /\ db.exists
    /\ 1 \in DOMAIN db.rows
    /\ calls[1].res = "raise" \/ calls[2].res = "raise"

\* C10: an Up invocation that committed one migration, whose name had no
\* ledger row, followed by a Down invocation that committed the same
\* migration, leaves the committed ledger as it was before the Up.
C10_UpThenDown ==
    (/\ pc = "done" /\ command = "down"
     /\ prev.command = "up"
     /\ Len(prev.committed) = 1
     /\ Committed(calls) = prev.committed
     /\ prev.committed[1] \notin DOMAIN prev.before.rows) =>
        /\ db.exists = prev.before.exists
        /\ db.rows = prev.before.rows

\* Up then Down of one migration, on a ledger that holds other entries
C10_Witness ==
    /\ pc = "done" /\ command = "down"
    /\ prev.command = "up"
    /\ Len(prev.committed) = 1
    /\ Committed(calls) = prev.committed
    /\ prev.committed[1] \notin DOMAIN prev.before.rows
    /\ DOMAIN prev.before.rows # {}

-----------------------------------------------------------------------------
(* The commands that list migrations without applying them: show,          *)
(* rollback --dry-run and status --show-missings.  Their directory may     *)
(* miss the file of a ledger entry and may hold a file that cannot be      *)
(* read.                                                                   *)

\* a file whose open() or decoding raises, with the exception it raises
Unreadable == [raises |-> << <<"I", "O">> >>]

\* read_migration(name, directory) returns
Loadable(n) == n \in DOMAIN files /\ files[n] # Unreadable

\* the directories of the listing commands: a file for some of the names,
\* one of them at most unreadable
ListFiles ==
    { f \in UNION { [S -> {PlainMigration, Unreadable}] : S \in SUBSET Names } :
        Cardinality({ n \in DOMAIN f : f[n] = Unreadable }) <= 1 }

\* the ledger of the listing commands: the first name was applied last
ListRows(S) ==
    [n \in S |-> [hash |-> hash_migration(PlainMigration),
                  applied |-> IF n = 1 THEN 1 ELSE 0]]

\* the filters of the listing commands
RangeBounds == {None} \cup { Some(n) : n \in Names }

ListFilters ==
    {FilterAll}
        \cup { FilterRange(a, b) : a \in RangeBounds, b \in RangeBounds }
        \cup { FilterCount(n) : n \in Names }
        \cup { FilterNames(l) : l \in {<<>>} \cup [1..1 -> Names] \cup [1..2 -> Names] }

ListInit ==
    /\ files \in ListFiles
    /\ \E S \in SUBSET Names :
          db = [exists |-> TRUE, rows |-> ListRows(S), data |-> {}]
    /\ work = db
    /\ pc = "idle"
    /\ driver = "mysql"
    /\ command = "none"
    /\ one_transaction = FALSE
    /\ template = EmptyTemplate
    /\ filters = FilterAll
    /\ cand = <<>>
    /\ ci = 1
    /\ done = 0
    /\ name = 0
    /\ qi = 1
    /\ calls = <<>>
    /\ clock = 0
    /\ runs = 0
    /\ db0 = db
    /\ prev = NoSummary
    /\ crashed = FALSE
    /\ ToolsIdle

\* what a listing command leaves alone
ListFrame ==
    UNCHANGED << toolVars, files, db, work, driver, one_transaction, template,
                 name, qi, clock, runs, db0, prev >>

\* main, command show: load_migrations over the directory
main_show(f) ==
    /\ pc = "idle"
    /\ command' = "show"
    /\ filters' = f
    /\ cand' = list_directory
    /\ ci' = 1
    /\ done' = 0
    /\ calls' = <<>>
    /\ crashed' = FALSE
    /\ pc' = "next"
    /\ ListFrame

\* main, command rollback with --dry-run: load_migrations over the names
\* of the ledger
main_down_dry_run(f) ==
    /\ pc = "idle"
    /\ command' = "rollback --dry-run"
    /\ filters' = f
    /\ cand' = list_migrations(work)
    /\ ci' = 1
    /\ done' = 0
    /\ calls' = <<>>
    /\ crashed' = FALSE
    /\ pc' = "next"
    /\ ListFrame

\* load_migrations: the candidate satisfies the filter, done is counted,
\* read_migration raises: the error is logged and the loop goes on
load_migrations_except ==
    /\ pc = "next"
    /\ ci <= Len(cand)
    /\ Selected(filters, cand[ci], done)
    /\ ~Loadable(cand[ci])
    /\ done' = done + 1
    /\ ci' = ci + 1
    /\ calls' = Append(calls, Entry("error", cand[ci], <<>>, "raise"))
    /\ UNCHANGED << command, filters, cand, pc, crashed >>
    /\ ListFrame

\* load_migrations yields to the print of show or of --dry-run
list_yield ==
    /\ pc = "next"
    /\ command \in {"show", "rollback --dry-run"}
    /\ ci <= Len(cand)
    /\ Selected(filters, cand[ci], done)
    /\ Loadable(cand[ci])
    /\ done' = done + 1
    /\ ci' = ci + 1
    /\ calls' = Append(calls, Entry("print", cand[ci], <<>>, "ok"))
    /\ UNCHANGED << command, filters, cand, pc, crashed >>
    /\ ListFrame

\* the candidates of show or of --dry-run are exhausted
list_end ==
    /\ pc = "next"
    /\ command \in {"show", "rollback --dry-run"}
    /\ ci > Len(cand)
    /\ pc' = "done"
    /\ UNCHANGED << command, filters, cand, ci, done, calls, crashed >>
    /\ ListFrame

\* what status --show-missings leaves alone
StatusFrame ==
    UNCHANGED << migrations_arg, readVars, dumpVars, files, db, work, driver,
                 one_transaction, template, name, qi, clock, runs, db0, prev >>

\* the name "" that found holds from the start
NoName == 0

\* main, command status with --show-missings: status_migrations gives
\* load_migrations no filters
main_status_show_missings ==
    /\ pc = "idle"
    /\ command' = "status --show-missings"
    /\ filters' = FilterAll
    /\ found' = << NoName >>
    /\ cand' = list_directory
    /\ ci' = 1
    /\ done' = 0
    /\ calls' = <<>>
    /\ crashed' = FALSE
    /\ pc' = "next"
    /\ StatusFrame

\* the loop body of status_migrations with show_missings: the name is
\* added to found, its status is looked up and not printed
status_migrations_found ==
    /\ pc = "next"
    /\ command = "status --show-missings"
    /\ ci <= Len(cand)
    /\ Selected(filters, cand[ci], done)
    /\ Loadable(cand[ci])
    /\ done' = done + 1
    /\ ci' = ci + 1
    /\ found' = Append(found, cand[ci])
    /\ UNCHANGED << command, filters, cand, calls, pc, crashed >>
    /\ StatusFrame

\* SELECT ... WHERE name NOT IN found: a line M for each row fetched
status_migrations_missings ==
    /\ pc = "next"
    /\ command = "status --show-missings"
    /\ ci > Len(cand)
    /\ LET missing == Sorted({ n \in DOMAIN work.rows : ~In(n, found) })
       IN  calls' = calls \o [i \in DOMAIN missing |->
                                 Entry("status", missing[i], <<>>, "M")]
    /\ pc' = "done"
    /\ UNCHANGED << command, filters, cand, ci, done, found, crashed >>
    /\ StatusFrame

ListNext ==
    \/ \E f \in ListFilters : main_show(f)
    \/ \E f \in ListFilters \ {FilterNames(<<>>)} : main_down_dry_run(f)
    \/ main_status_show_missings
    \/ load_migrations_skip
    \/ load_migrations_except
    \/ list_yield
    \/ list_end
    \/ status_migrations_found
    \/ status_migrations_missings

SpecList == ListInit /\ [][ListNext]_vars

\* the names the listing command printed are, in order, the candidates
\* that satisfy Test
YieldedAre(Test(_)) == Printed(calls) = SelectSeq(cand, Test)

\* A <= n <= B, an omitted bound not constraining
InRange(f, n) ==
    /\ IF f.start_at = None THEN TRUE ELSE f.start_at[1] <= n
    /\ IF f.stop_at = None THEN TRUE ELSE n <= f.stop_at[1]

\* the listing command has run to its end
Listed == pc = "done" /\ command \in {"show", "rollback --dry-run"}

\* C11: with a Range(A, B) filter, either bound possibly omitted, the
\* migrations load_migrations yields are the loadable candidates n with
\* A <= n <= B, all of them, in the order of the candidate list.
C11_Range ==
    (Listed /\ filters.includes = None /\ filters.count = None) =>
        LET InRangeLoadable(n) == Loadable(n) /\ InRange(filters, n)
        IN  YieldedAre(InRangeLoadable)

\* a range with both bounds, over candidates that are not in name order,
\* left a candidate out and yielded two
C11_Witness ==
    /\ Listed
    /\ filters.start_at # None /\ filters.stop_at # None
    /\ filters.includes = None /\ filters.count = None
    /\ Len(Printed(calls)) = 2
    /\ Printed(calls)[1] > Printed(calls)[2]
    /\ \E i \in DOMAIN cand : Loadable(cand[i]) /\ ~InRange(filters, cand[i])

Min(a, b) == IF a <= b THEN a ELSE b

\* C12: with a Count(N) filter the migrations load_migrations yields are
\* the first min(N, number of candidates) candidates, in order.
C12_Count ==
    (Listed /\ filters.count # None) =>
        Printed(calls) = SubSeq(cand, 1, Min(filters.count[1], Len(cand)))

\* C14: with a Names filter the migrations load_migrations yields are the
\* loadable candidates whose name is among the tokens, each once, in the
\* order of the candidate list whatever the order of the tokens.
C14_Names ==
    (Listed /\ filters.includes # None) =>
        (Len(filters.includes[1]) > 0 =>
            LET tokens == filters.includes[1]
                Listed_n(n) == Loadable(n) /\ \E k \in DOMAIN tokens : tokens[k] = n
            IN  /\ YieldedAre(Listed_n)
                /\ \A i, j \in DOMAIN Printed(calls) :
                      Printed(calls)[i] = Printed(calls)[j] => i = j)

\* two names were given in the reverse of the candidate order and both
\* were yielded
C14_Witness ==
    /\ Listed
    /\ filters.includes # None
    /\ Len(filters.includes[1]) = 2
    /\ Printed(calls) = << filters.includes[1][2], filters.includes[1][1] >>
    /\ Len(cand) > 2

RECURSIVE Kept(_, _, _)
\* what load_migrations yields from a list l whose files all load
Kept(f, l, dn) ==
    IF l = <<>> THEN <<>>
    ELSE IF Selected(f, Head(l), dn)
         THEN << Head(l) >> \o Kept(f, Tail(l), dn + 1)
         ELSE Kept(f, Tail(l), dn)

\* C15: a candidate whose file fails to load is logged and skipped, and
\* the migrations yielded are those load_migrations yields from the
\* candidate list without the failing files.
C15_LoadFailure ==
    /\ \A i \in DOMAIN calls :
          calls[i].op \in {"print", "error"} =>
              (calls[i].op = "error" <=> ~Loadable(calls[i].name))
    /\ Listed => Printed(calls) = Kept(filters, SelectSeq(cand, Loadable), 0)

-----------------------------------------------------------------------------
(* _parse_migrations_rev on the filter tokens of the command line, each    *)
(* token a string of characters                                            *)

MaxTok == 5       \* length of the longest filter token

\* the characters of a token
TokenChars == {".", "0", "1", "-", "a"}

Tokens == UNION { [1..k -> TokenChars] : k \in 0..MaxTok }

\* the tokens of the lists of two
PairTokens == { <<"a">>, <<"1">>, <<".", ".">>, <<"a", ".", ".", "a">> }

\* args.migrations: None (no filters given by the caller), the empty list,
\* one token, two tokens
TokenLists ==
    {None, Some(<<>>)}
        \cup { Some(<< t >>) : t \in Tokens }
        \cup { Some(<< t, u >>) : t \in PairTokens, u \in PairTokens }

\* position of the first ".." of s, 0 when s has none
FirstSep(s) ==
    IF \E i \in 1..(Len(s) - 1) : s[i] = "." /\ s[i + 1] = "."
    THEN CHOOSE i \in 1..(Len(s) - 1) :
            /\ s[i] = "." /\ s[i + 1] = "."
            /\ \A j \in 1..(i - 1) : ~(s[j] = "." /\ s[j + 1] = ".")
    ELSE 0

RECURSIVE split(_)
\* s.split(".."): the separators are found from the left, without overlap
split(s) ==
    IF FirstSep(s) = 0 THEN << s >>
    ELSE << SubSeq(s, 1, FirstSep(s) - 1) >>
             \o split(SubSeq(s, FirstSep(s) + 2, Len(s)))

Digit(c) == IF c = "1" THEN 1 ELSE 0

RECURSIVE DigitsValue(_)
DigitsValue(s) ==
    IF s = <<>> THEN 0
    ELSE 10 * DigitsValue(SubSeq(s, 1, Len(s) - 1)) + Digit(s[Len(s)])

\* does int(s) return: an optional sign, then digits
IntParses(s) ==
    LET digits == IF s # <<>> /\ s[1] = "-" THEN Tail(s) ELSE s
    IN  digits # <<>> /\ \A i \in DOMAIN digits : digits[i] \in {"0", "1"}

\* int(s), when it returns
int(s) ==
    IF s[1] = "-" THEN 0 - DigitsValue(Tail(s)) ELSE DigitsValue(s)

\* "x if len(x) else None"
OrNone(x) == IF Len(x) > 0 THEN Some(x) ELSE None

\* _parse_migrations_rev(filters): (start_at, stop_at, includes, count)
parse_migrations_rev(l) ==
    IF l # None /\ l # Some(<<>>) /\ Len(l[1]) = 1
    THEN IF Len(split(l[1][1])) = 2
         THEN FilterRange(OrNone(split(l[1][1])[1]), OrNone(split(l[1][1])[2]))
         ELSE IF IntParses(l[1][1]) /\ int(l[1][1]) > 0
         THEN FilterCount(int(l[1][1]))
         ELSE [FilterAll EXCEPT !.includes = l]
    ELSE [FilterAll EXCEPT !.includes = l]

\* no command that reads the ledger has run
LedgerIdle ==
    /\ files = [n \in Names |-> Directory(n)]
    /\ db = [exists |-> FALSE, rows |-> NoRows, data |-> {}]
    /\ work = db
    /\ driver = "mysql"
    /\ command = "none"
    /\ one_transaction = FALSE
    /\ template = EmptyTemplate
    /\ filters = FilterAll
    /\ cand = <<>>
    /\ ci = 1
    /\ done = 0
    /\ name = 0
    /\ qi = 1
    /\ calls = <<>>
    /\ clock = 0
    /\ runs = 0
    /\ db0 = db
    /\ prev = NoSummary
    /\ crashed = FALSE

ParseInit ==
    /\ LedgerIdle
    /\ pc = "idle"
    /\ migrations_arg \in TokenLists
    /\ found = <<>>
    /\ ReadIdle
    /\ DumpIdle

\* load_migrations parses the filters it was given
load_migrations_parse ==
    /\ pc = "idle"
    /\ filters' = parse_migrations_rev(migrations_arg)
    /\ pc' = "next"
    /\ UNCHANGED << toolVars, files, db, work, driver, command, one_transaction,
                    template, cand, ci, done, name, qi, calls, clock, runs, db0,
                    prev, crashed >>

ParseNext == load_migrations_parse

SpecParse == ParseInit /\ [][ParseNext]_vars

\* the token holds ".."
HoldsSep(s) == \E i \in 1..(Len(s) - 1) : s[i] = "." /\ s[i + 1] = "."

\* the token is the decimal notation of a positive integer
PositiveInteger(s) ==
    /\ s # <<>>
    /\ \A i \in DOMAIN s : s[i] \in {"0", "1"}
    /\ \E i \in DOMAIN s : s[i] = "1"

\* C13: _parse_migrations_rev classifies the token list by its structure:
\* absent or empty keeps all; a single token holding ".." is a Range; a
\* single token that is a positive integer is a Count; every other list is
\* the set of names it lists.
C13_Classified ==
    (pc = "next" /\ command = "none") =>
        LET l == migrations_arg IN
        IF l = None \/ l = Some(<<>>)
        THEN /\ filters.start_at = None /\ filters.stop_at = None
             /\ filters.count = None
             /\ filters.includes \in {None, Some(<<>>)}
        ELSE IF Len(l[1]) = 1 /\ HoldsSep(l[1][1])
        THEN /\ filters.includes = None /\ filters.count = None
        ELSE IF Len(l[1]) = 1 /\ PositiveInteger(l[1][1])
        THEN filters = FilterCount(DigitsValue(l[1][1]))
        ELSE filters = FilterNames(l[1])

-----------------------------------------------------------------------------
(* read_migration, one line for each step.  A line is a sequence of        *)
(* symbols: " " (white space), "--", "migrate:", a word, ";".              *)

MaxLines == 4     \* number of lines of the longest file

\* the lines a file is made of
DirectiveUp == <<"--", " ", "migrate:", " ", "up">>
DirectiveDown == <<"--", "migrate:", "down">>
CommentLine == <<"--", " ", "x">>
BlankLine == <<" ">>
WholeStatement == <<"x", ";">>
PartOfStatement == <<"y">>
StatementWithComment == <<"z", ";", " ", "--", "x">>

Lines ==
    { DirectiveUp, DirectiveDown, CommentLine, BlankLine, WholeStatement,
      PartOfStatement, StatementWithComment }

TextFiles == UNION { [1..k -> Lines] : k \in 0..MaxLines }

\* the first position from i on that holds no white space (Len + 1 when
\* there is none)
SkipSpace(l, i) ==
    IF \E j \in i..Len(l) : l[j] # " "
    THEN CHOOSE j \in i..Len(l) : l[j] # " " /\ \A k \in i..(j - 1) : l[k] = " "
    ELSE Len(l) + 1

\* the last position that holds no white space (0 when there is none)
LastInk(l) ==
    IF \E j \in 1..Len(l) : l[j] # " "
    THEN CHOOSE j \in 1..Len(l) : l[j] # " " /\ \A k \in (j + 1)..Len(l) : l[k] = " "
    ELSE 0

\* COMMENTS.match(line): ^\s*--\s*(.*?)\s*$, the group or None
COMMENTS(l) ==
    LET i == SkipSpace(l, 1) IN
    IF i <= Len(l) /\ l[i] = "--"
    THEN Some(SubSeq(l, SkipSpace(l, i + 1), LastInk(l)))
    ELSE None

\* MIGRATE_KEY.match(text): migrate:\s*([^\s]*), the group or None
MIGRATE_KEY(t) ==
    IF t # <<>> /\ t[1] = "migrate:"
    THEN IF SkipSpace(t, 2) <= Len(t) THEN Some(t[SkipSpace(t, 2)]) ELSE Some("")
    ELSE None

\* EMPTY_LINE.match(line): ^\s*$
EMPTY_LINE(l) == \A j \in 1..Len(l) : l[j] = " "

\* SQL_IS_COMPLETE.match(line): .*;\s*(--.*)?$
SQL_IS_COMPLETE(l) ==
    \E j \in 1..Len(l) :
        /\ l[j] = ";"
        /\ SkipSpace(l, j + 1) = Len(l) + 1 \/ l[SkipSpace(l, j + 1)] = "--"

RECURSIVE JoinLines(_)
\* "".join(current), each line with its end of line
JoinLines(c) ==
    IF c = <<>> THEN <<>> ELSE c[1] \o <<"\n">> \o JoinLines(Tail(c))

\* flush(key, current): the dict after the call
flush(m, k, c) ==
    [x \in DOMAIN m \cup {k} |->
        IF x = k
        THEN (IF k \in DOMAIN m THEN m[k] ELSE <<>>)
                 \o (IF c # <<>> THEN << JoinLines(c) >> ELSE <<>>)
        ELSE m[x]]

\* a line that names a section
IsDirective(l) ==
    IF COMMENTS(l) = None THEN FALSE ELSE MIGRATE_KEY(COMMENTS(l)[1]) # None

\* the section the directive names
DirectiveKey(l) == MIGRATE_KEY(COMMENTS(l)[1])[1]

ReadInit ==
    /\ LedgerIdle
    /\ pc = "read"
    /\ migrations_arg = None
    /\ found = <<>>
    /\ file \in TextFiles
    /\ pos = 1
    /\ migration = <<>>
    /\ current = <<>>
    /\ key = "prolog"
    /\ DumpIdle

\* what read_migration leaves alone
ReadFrame ==
    UNCHANGED << files, db, work, driver, command, one_transaction, template,
                 filters, cand, ci, done, name, qi, calls, clock, runs, db0,
                 prev, crashed, migrations_arg, found, file, dumpVars >>

\* "key = k[1]; current = flush(key, current)"
directive(l) ==
    /\ key' = DirectiveKey(l)
    /\ migration' = flush(migration, key', current)

\* the line is a comment that names a section
read_migration_directive ==
    /\ pc = "read"
    /\ pos <= Len(file)
    /\ IsDirective(file[pos])
    /\ directive(file[pos])
    /\ current' = <<>>
    /\ pos' = pos + 1
    /\ UNCHANGED pc
    /\ ReadFrame

\* the line is another comment, or is empty: nothing is kept of it
read_migration_skip ==
    /\ pc = "read"
    /\ pos <= Len(file)
    /\ ~IsDirective(file[pos])
    /\ COMMENTS(file[pos]) # None \/ EMPTY_LINE(file[pos])
    /\ pos' = pos + 1
    /\ UNCHANGED << pc, migration, current, key >>
    /\ ReadFrame

\* the line is buffered; when it ends a statement the buffer is flushed
read_migration_line ==
    /\ pc = "read"
    /\ pos <= Len(file)
    /\ COMMENTS(file[pos]) = None
    /\ ~EMPTY_LINE(file[pos])
    /\ IF SQL_IS_COMPLETE(file[pos])
       THEN /\ migration' = flush(migration, key, Append(current, file[pos]))
            /\ current' = <<>>
       ELSE /\ current' = Append(current, file[pos])
            /\ UNCHANGED migration
    /\ pos' = pos + 1
    /\ UNCHANGED << pc, key >>
    /\ ReadFrame

\* "if 'up' not in migration and 'prolog' in migration"
prolog_as_up(m) ==
    IF "up" \notin DOMAIN m /\ "prolog" \in DOMAIN m
    THEN [x \in (DOMAIN m \ {"prolog"}) \cup {"up"} |->
             IF x = "up" THEN m["prolog"] ELSE m[x]]
    ELSE m

\* the end of the file: the last flush, prolog taken as up, return
read_migration_return ==
    /\ pc = "read"
    /\ pos > Len(file)
    /\ migration' = prolog_as_up(IF Len(current) > 0
                                 THEN flush(migration, key, current)
                                 ELSE migration)
    /\ pc' = "done"
    /\ UNCHANGED << pos, current, key >>
    /\ ReadFrame

ReadNext ==
    \/ read_migration_directive
    \/ read_migration_skip
    \/ read_migration_line
    \/ read_migration_return

SpecRead == ReadInit /\ [][ReadNext]_vars

\* C16: when read_migration reads a directive while lines of a statement
\* that is not terminated are buffered, the buffered text is appended to
\* the section that was active before the directive, and the section the
\* directive names, when it is another one, gets nothing of it.
C16_FlushUnderPreviousKey ==
    [][(/\ pc = "read" /\ pos <= Len(file) /\ pos' = pos + 1
        /\ IsDirective(file[pos])
        /\ current # <<>>) =>
           /\ key \in DOMAIN migration'
           /\ migration'[key]
                 = (IF key \in DOMAIN migration THEN migration[key] ELSE <<>>)
                       \o << JoinLines(current) >>
           /\ key' # key =>
                 migration'[key']
                     = (IF key' \in DOMAIN migration THEN migration[key'] ELSE <<>>)
      ]_vars

RECURSIVE StatementsFrom(_, _)
\* the statements of a run of lines, in order: the lines that are neither
\* comments nor empty, cut after each line that ends a statement; c holds
\* the lines of the statement that is being collected
StatementsFrom(l, c) ==
    IF l = <<>> THEN (IF c = <<>> THEN <<>> ELSE << JoinLines(c) >>)
    ELSE IF COMMENTS(Head(l)) # None \/ EMPTY_LINE(Head(l))
    THEN StatementsFrom(Tail(l), c)
    ELSE IF SQL_IS_COMPLETE(Head(l))
    THEN << JoinLines(Append(c, Head(l))) >> \o StatementsFrom(Tail(l), <<>>)
    ELSE StatementsFrom(Tail(l), Append(c, Head(l)))

Statements(l) == StatementsFrom(l, <<>>)

\* the position of the first directive of the file, Len + 1 without one
FirstDirective ==
    IF \E i \in DOMAIN file : IsDirective(file[i])
    THEN CHOOSE i \in DOMAIN file :
            IsDirective(file[i]) /\ \A j \in 1..(i - 1) : ~IsDirective(file[j])
    ELSE Len(file) + 1

\* the statements that precede every directive
Preceding == Statements(SubSeq(file, 1, FirstDirective - 1))

\* the file declares an up section
DeclaresUp ==
    \E i \in DOMAIN file : IsDirective(file[i]) /\ DirectiveKey(file[i]) = "up"

\* C17: after read_migration the statements that precede every directive
\* are under prolog when the file declares an up section, under up with no
\* prolog left when it declares none; a file without directive yields the
\* one section up, with all its statements in file order.
C17_ImplicitProlog ==
    (pc = "done" /\ command = "none" /\ existings = <<>>) =>
        /\ (Preceding # <<>> /\ DeclaresUp) =>
              "prolog" \in DOMAIN migration /\ migration["prolog"] = Preceding
        /\ (Preceding # <<>> /\ ~DeclaresUp) =>
              /\ "prolog" \notin DOMAIN migration
              /\ "up" \in DOMAIN migration /\ migration["up"] = Preceding
        /\ FirstDirective > Len(file) =>
              /\ DOMAIN migration = {"up"}
              /\ migration["up"] = Statements(file)

-----------------------------------------------------------------------------
(* filter_selection and dump.  A table name and a selection item are       *)
(* strings of characters; a line of the dump is a sequence of symbols as   *)
(* read_migration takes them.                                              *)

MaxSel == 2       \* number of items of the longest selection

\* the tables of the database
Tables == { <<"u">>, <<"o">> }

\* what SHOW TABLES can list, in its order
TableLists ==
    { <<>>, << <<"u">> >>, << <<"o">> >>,
      << <<"u">>, <<"o">> >>, << <<"o">>, <<"u">> >> }

\* the items of a selection: "*", a name, "-" and a name; z is no table
Items ==
    { <<"*">>, <<"u">>, <<"o">>, <<"z">>, <<"-", "u">>, <<"-", "o">>, <<"-", "z">> }

Selections == UNION { [1..k -> Items] : k \in 0..MaxSel }

RECURSIVE selection_loop(_, _, _)
\* the for loop of filter_selection over the items l; a holds res, present
\* and star_present
selection_loop(l, e, a) ==
    IF l = <<>> THEN a
    ELSE LET item == Head(l) IN
         selection_loop(Tail(l), e,
             IF item = <<"*">>
             THEN [a EXCEPT !.star_present = TRUE]
             ELSE IF item # <<>> /\ item[1] = "-"
             THEN [a EXCEPT !.present = @ \cup {Tail(item)}, !.star_present = TRUE]
             ELSE IF In(item, e)
             THEN [a EXCEPT !.res = Append(@, item), !.present = @ \cup {item}]
             ELSE a)

\* filter_selection(selection, existings)
filter_selection(sel, e) ==
    LET a == selection_loop(sel, e,
                 [res |-> <<>>, present |-> {}, star_present |-> sel = <<>>])
        NotPresent(t) == t \notin a.present
    IN  IF a.star_present THEN a.res \o SelectSeq(e, NotPresent) ELSE a.res

\* the keyword arguments of dump that the command line sets
DumpOptions ==
    [split : BOOLEAN, create_database : BOOLEAN, create_table : BOOLEAN,
     insert : BOOLEAN, add_down : BOOLEAN, may_fail : BOOLEAN]

\* the defaults of the command line
DefaultOptions ==
    [split |-> FALSE, create_database |-> FALSE, create_table |-> TRUE,
     insert |-> FALSE, add_down |-> FALSE, may_fail |-> FALSE]

SelectInit ==
    /\ LedgerIdle
    /\ pc = "tables"
    /\ migrations_arg = None
    /\ found = <<>>
    /\ ReadIdle
    /\ existings \in TableLists
    /\ selection \in Selections
    /\ options = DefaultOptions
    /\ outputs = <<>>
    /\ todo = <<>>
    /\ counter = 1

\* what dump leaves alone
DumpFrame ==
    UNCHANGED << files, db, work, driver, one_transaction, template, filters,
                 cand, ci, done, name, qi, calls, clock, runs, db0, prev,
                 migrations_arg, found, existings, selection, options >>

\* SHOW TABLES and the selection of the tables to dump
dump_show_tables ==
    /\ pc = "tables"
    /\ todo' = filter_selection(selection, existings)
    /\ pc' = "table"
    /\ UNCHANGED << command, crashed, readVars, outputs, counter >>
    /\ DumpFrame

SelectNext == dump_show_tables

SpecSelect == SelectInit /\ [][SelectNext]_vars

\* the elements of a list
Elements(l) == { l[i] : i \in DOMAIN l }

\* the tables a "-name" item of the selection excludes
Excluded == { Tail(selection[i]) : i \in { j \in DOMAIN selection : selection[j][1] = "-" } }

\* the selection holds "*" or a "-name" item
Inverted == \E i \in DOMAIN selection : selection[i] = <<"*">> \/ selection[i][1] = "-"

\* C18: filter_selection returns all the existing tables for the empty
\* selection; the named existing tables for a selection without "*" and
\* without "-name"; and, for a selection with "*" or a "-name", the
\* existing tables that no "-name" excludes, none of the excluded ones.
C18_Selection ==
    (pc = "table" /\ command = "none") =>
        IF selection = <<>> THEN Elements(todo) = Elements(existings)
        ELSE IF ~Inverted
        THEN Elements(todo) = Elements(selection) \cap Elements(existings)
        ELSE /\ Elements(todo) = Elements(existings) \ Excluded
             /\ Elements(todo) \cap Excluded = {}

-----------------------------------------------------------------------------
(* dump, and read_migration on what it wrote *)

\* the name of the output given with --file (or standard output), and of
\* the file of a table in split mode (fmt with counter and table)
Stream == << 0, <<>> >>
TableFile(n, t) == << n, t >>

\* "@" if may_fail else ""
MayFailPrefix(mf) == IF mf THEN <<"@">> ELSE <<>>

\* the lines dump_database prints
DatabaseLines(mf) ==
    << <<"--", " ", "Database:", " ", "db">>,
       MayFailPrefix(mf) \o <<"CREATE DATABASE", "db", ";">> >>

\* the lines dump_table prints: SHOW CREATE TABLE gives several lines
TableLines(t, mf) ==
    << <<"--", " ", "Table:", " ">> \o t,
       MayFailPrefix(mf) \o <<"CREATE TABLE">> \o t \o <<"(">>,
       <<")", ";">> >>

\* does SELECT * FROM t return rows
HasRows(t) == t = <<"u">>

\* the lines dump_values prints
ValuesLines(t, mf) ==
    IF HasRows(t)
    THEN << MayFailPrefix(mf) \o <<"INSERT INTO">> \o t \o <<"VALUES">>,
            <<"(", "row", ")">>,
            <<";">> >>
    ELSE <<>>

\* the lines of the down section of a table
DownLines(t, o) ==
    << <<"--", " ", "migrate:", " ", "down">> >>
        \o (IF o.create_table THEN << <<"@", "DROP TABLE">> \o t \o <<";">> >>
            ELSE IF o.insert
            THEN << <<"--", " ", "You should", " ">>,
                    <<"@", "DELETE FROM", "table", ";">> >>
            ELSE <<>>)

\* print(..., file=o): the lines are added to the output
PrintTo(out, o, l) ==
    [x \in DOMAIN out \cup {o} |->
        (IF x \in DOMAIN out THEN out[x] ELSE <<>>) \o (IF x = o THEN l ELSE <<>>)]

DumpInit ==
    /\ LedgerIdle
    /\ pc = "idle"
    /\ migrations_arg = None
    /\ found = <<>>
    /\ ReadIdle
    /\ existings \in TableLists
    /\ selection \in { <<>>, << <<"-", "u">> >> }
    /\ options \in DumpOptions
    /\ outputs = <<>>
    /\ todo = <<>>
    /\ counter = 1

\* dump up to SHOW TABLES: the output is opened, and with create_database
\* the database is dumped; its down section prints to fd, which is not
\* bound yet
dump_database_step ==
    /\ pc = "idle"
    /\ command' = "dump"
    /\ IF options.create_database
       THEN IF options.add_down
            THEN /\ outputs' = PrintTo(outputs, Stream,
                                   DatabaseLines(options.may_fail)
                                       \o << <<"--", " ", "migrate:", " ", "down">> >>)
                 /\ crashed' = TRUE
                 /\ pc' = "done"
            ELSE /\ outputs' = PrintTo(outputs, Stream, DatabaseLines(options.may_fail))
                 /\ crashed' = FALSE
                 /\ pc' = "tables"
       ELSE /\ outputs' = IF options.split THEN outputs
                          ELSE PrintTo(outputs, Stream, <<>>)
            /\ crashed' = FALSE
            /\ pc' = "tables"
    /\ UNCHANGED << readVars, todo, counter >>
    /\ DumpFrame

\* the body of the loop over the selected tables
dump_table_step ==
    /\ pc = "table"
    /\ todo # <<>>
    /\ LET t == Head(todo)
           o == IF options.split THEN TableFile(counter, t) ELSE Stream
       IN  outputs' = PrintTo(outputs, o,
               (IF options.create_table THEN TableLines(t, options.may_fail) ELSE <<>>)
                   \o (IF options.insert THEN ValuesLines(t, options.may_fail) ELSE <<>>)
                   \o (IF options.add_down THEN DownLines(t, options) ELSE <<>>))
    /\ counter' = counter + 1
    /\ todo' = Tail(todo)
    /\ UNCHANGED << pc, command, crashed, readVars >>
    /\ DumpFrame

\* the loop has ended, dump returns
dump_return ==
    /\ pc = "table"
    /\ todo = <<>>
    /\ pc' = "dumped"
    /\ UNCHANGED << command, crashed, readVars, outputs, todo, counter >>
    /\ DumpFrame

\* an output of the dump is given to read_migration
read_back(o) ==
    /\ pc = "dumped"
    /\ file' = outputs[o]
    /\ pc' = "read"
    /\ UNCHANGED << command, crashed, pos, migration, current, key, outputs,
                    todo, counter >>
    /\ DumpFrame

DumpNext ==
    \/ dump_database_step
    \/ dump_show_tables
    \/ dump_table_step
    \/ dump_return
    \/ \E o \in DOMAIN outputs : read_back(o)
    \/ read_migration_directive
    \/ read_migration_skip
    \/ read_migration_line
    \/ read_migration_return

SpecDump == DumpInit /\ [][DumpNext]_vars

\* the first symbol of a statement after the may-fail marker
Verb(st) == IF st[1] = "@" THEN st[2] ELSE st[1]

\* C19: a dump with down-migrations requested completes, and each output
\* read back by read_migration has every CREATE and INSERT statement of
\* the output in its up section and only the DROP or DELETE statements
\* in its down section.
C19_DumpReadsBack ==
    (command = "dump" /\ options.add_down) =>
        /\ ~crashed
        /\ pc = "done" =>
              /\ \A st \in Elements(Statements(file)) :
                    Verb(st) \in {"CREATE DATABASE", "CREATE TABLE", "INSERT INTO"}
                        => st \in Elements(Get(migration, "up"))
              /\ \A st \in Elements(Get(migration, "down")) :
                    Verb(st) \in {"DROP TABLE", "DROP DATABASE", "DELETE FROM"}

\* the names that got a line M
MissingLines == { calls[i].name : i \in { j \in DOMAIN calls : calls[j].res = "M" } }

\* C20: status --show-missings prints a line M for the ledger entries
\* whose name has no file in the directory, for all of them and for no
\* entry whose file exists.
C20_Missings ==
    (pc = "done" /\ command = "status --show-missings") =>
        MissingLines = DOMAIN db.rows \ DOMAIN files

-----------------------------------------------------------------------------
(* Properties of the executor, continued *)

\* C21: once a statement that is not flagged may-fail (it does not start
\* with the marker) has failed, nothing more is sent by the call of
\* apply_migrations: the next call is the rollback, it is the last call,
\* and no commit follows.
C21_AbortOnFailure ==
    \A i \in DOMAIN calls :
        (calls[i].op = "execute" /\ calls[i].res = "raise"
            /\ ~StartsWithMarker(calls[i].q)) =>
            /\ pc = "done"
            /\ Len(calls) = i + 1
            /\ calls[i + 1].op = "rollback"

\* the calls made for a migration: they carry its name
Processing(i) == calls[i].name # 0

\* C22: an Up batch is processed in ascending name order; a Down batch is
\* processed in the reverse of the order of application: no migration is
\* processed before a migration of the batch that was applied after it,
\* and migrations applied at the same time go in descending name order.
C22_BatchOrder ==
    \A i, j \in DOMAIN calls :
        (i < j /\ Processing(i) /\ Processing(j)
            /\ calls[i].name # calls[j].name) =>
            LET a == calls[i].name
                b == calls[j].name
            IN  /\ command = "up" => a < b
                /\ command = "down" =>
                    /\ a \in DOMAIN db0.rows /\ b \in DOMAIN db0.rows
                    /\ db0.rows[a].applied >= db0.rows[b].applied
                    /\ db0.rows[a].applied = db0.rows[b].applied => a > b

\* a Down batch that undoes a migration applied by an earlier Up before
\* an older migration of a greater name, then two migrations applied at the
\* same time in descending name order
C22_Witness ==
    /\ command = "down"
    /\ pc = "done"
    /\ \E i, j \in DOMAIN calls :
        /\ i < j
        /\ calls[i].op = "print" /\ calls[j].op = "print"
        /\ calls[i].name < calls[j].name
        /\ db0.rows[calls[i].name].applied > db0.rows[calls[j].name].applied
    /\ \E i, j \in DOMAIN calls :
        /\ i < j
        /\ Processing(i) /\ Processing(j)
        /\ calls[i].name > calls[j].name
        /\ db0.rows[calls[i].name].applied = db0.rows[calls[j].name].applied

\* the transaction calls among the first i calls
TxBefore(i) ==
    SelectSeq(SubSeq(calls, 1, i),
              LAMBDA e : e.op \in {"begin", "commit", "rollback"})

\* a transaction is open after the first i calls
TxOpen(i) ==
    LET t == TxBefore(i)
    IN  t # <<>> /\ t[Len(t)].op = "begin"

\* C23: the transaction calls of apply_migrations are balanced: a begin is
\* issued only when no transaction is open, a commit or rollback only when
\* one is, no transaction is open when the call ends, statements and ledger
\* writes are issued inside an open transaction, and no commit follows a
\* rollback.
C23_Balanced ==
    /\ \A i \in DOMAIN calls :
        /\ calls[i].op = "begin" => ~TxOpen(i - 1)
        /\ calls[i].op \in {"commit", "rollback"} => TxOpen(i - 1)
        /\ calls[i].op \in {"execute", "insert", "delete"} => TxOpen(i - 1)
        /\ calls[i].op = "rollback" =>
            \A j \in DOMAIN calls : j > i => calls[j].op # "commit"
    /\ (pc = "done" /\ command \in {"up", "down"}) => ~TxOpen(Len(calls))

-----------------------------------------------------------------------------
(* The commands up and rollback with --dry-run *)

\* CREATE DATABASE IF NOT EXISTS `database`
CREATE_DATABASE == <<"B">>

\* the database of args.database is on the server: a CREATE DATABASE has
\* taken effect
DatabaseExists(d) == CREATE_DATABASE \in d.data

\* the servers a dry run can meet: without the database, with the database
\* and no ledger table, with a ledger that records some of the migrations
DryDatabases ==
    { [exists |-> FALSE, rows |-> NoRows, data |-> {}],
      [exists |-> FALSE, rows |-> NoRows, data |-> {CREATE_DATABASE}] }
    \cup { [exists |-> TRUE,
            rows |-> [n \in S |-> [hash |-> hash_migration(Directory(n)),
                                   applied |-> 0]],
            data |-> {CREATE_DATABASE}] : S \in SUBSET Names }

DryInit ==
    /\ files = [n \in Names |-> Directory(n)]
    /\ db \in DryDatabases
    /\ work = db
    /\ pc = "idle"
    /\ driver = "mysql"
    /\ command = "none"
    /\ one_transaction = FALSE
    /\ template = EmptyTemplate
    /\ filters = FilterAll
    /\ cand = <<>>
    /\ ci = 1
    /\ done = 0
    /\ name = 0
    /\ qi = 1
    /\ calls = <<>>
    /\ clock = 0
    /\ runs = 0
    /\ db0 = db
    /\ prev = NoSummary
    /\ crashed = FALSE
    /\ ToolsIdle

\* what a dry run never assigns
DryFrame ==
    UNCHANGED << toolVars, files, one_transaction, template, name, qi, clock,
                 runs, db0, prev >>

\* connect(args, create_database): the CREATE DATABASE is executed on the
\* connection when asked for, then select_db
connect(drv, create_database) ==
    IF create_database /\ drv # "fake" THEN Execute(db, CREATE_DATABASE) ELSE db

\* the calls connect makes on the session
connect_calls(create_database) ==
    IF create_database
    THEN << Entry("execute", 0, CREATE_DATABASE, "ok") >>
    ELSE <<>>

\* main, command up with --dry-run: connect, then the names of
\* pending_migrations are printed
main_up_dry_run(drv, f, create_database) ==
    /\ pc = "idle"
    /\ command' = "up --dry-run"
    /\ driver' = drv
    /\ filters' = f
    /\ db' = connect(drv, create_database)
    /\ work' = db'
    /\ calls' = connect_calls(create_database)
    /\ ci' = 1
    /\ done' = 0
    /\ IF drv = "fake" \/ DatabaseExists(db')
       THEN /\ cand' = list_directory
            /\ crashed' = FALSE
            /\ pc' = "next"
       ELSE \* select_db raises
            /\ cand' = <<>>
            /\ crashed' = TRUE
            /\ pc' = "done"
    /\ DryFrame

\* main, command rollback with --dry-run: connect, then the names of
\* load_migrations over list_migrations are printed
main_rollback_dry_run(drv, f) ==
    /\ pc = "idle"
    /\ command' = "rollback --dry-run"
    /\ driver' = drv
    /\ filters' = f
    /\ db' = connect(drv, FALSE)
    /\ work' = db'
    /\ calls' = connect_calls(FALSE)
    /\ ci' = 1
    /\ done' = 0
    /\ IF drv = "fake" \/ (DatabaseExists(db) /\ db.exists)
       THEN /\ cand' = list_migrations(IF drv = "fake" THEN FakeDb ELSE db)
            /\ crashed' = FALSE
            /\ pc' = "next"
       ELSE \* select_db or the SELECT of list_migrations raises
            /\ cand' = <<>>
            /\ crashed' = TRUE
            /\ pc' = "done"
    /\ DryFrame

\* what the loop of a dry run leaves alone
DryLoopFrame ==
    /\ UNCHANGED << db, work, driver, command, filters, cand, pc, crashed >>
    /\ DryFrame

\* pending_migrations yields to the print of --dry-run: is_pending returned
\* True, or raised because the ledger table is missing
pending_migrations_dry_yield ==
    /\ pc = "next"
    /\ command = "up --dry-run"
    /\ ci <= Len(cand)
    /\ Selected(filters, cand[ci], done)
    /\ IF Session.exists
       THEN /\ is_pending(Session, cand[ci], read_migration(cand[ci]))
            /\ calls' = Append2(calls,
                                Entry("lookup", cand[ci], <<>>, "pending"),
                                Entry("print", cand[ci], <<>>, "ok"))
       ELSE calls' = Append2(calls,
                             Entry("lookup", cand[ci], <<>>, "raise"),
                             Entry("print", cand[ci], <<>>, "ok"))
    /\ done' = done + 1
    /\ ci' = ci + 1
    /\ DryLoopFrame

\* pending_migrations in a dry run: is_pending returned False
pending_migrations_dry_applied ==
    /\ pc = "next"
    /\ command = "up --dry-run"
    /\ ci <= Len(cand)
    /\ Selected(filters, cand[ci], done)
    /\ Session.exists
    /\ ~is_pending(Session, cand[ci], read_migration(cand[ci]))
    /\ calls' = Append(calls, Entry("lookup", cand[ci], <<>>, "applied"))
    /\ done' = done + 1
    /\ ci' = ci + 1
    /\ DryLoopFrame

\* load_migrations yields to the print of rollback --dry-run
load_migrations_dry_yield ==
    /\ pc = "next"
    /\ command = "rollback --dry-run"
    /\ ci <= Len(cand)
    /\ Selected(filters, cand[ci], done)
    /\ calls' = Append(calls, Entry("print", cand[ci], <<>>, "ok"))
    /\ done' = done + 1
    /\ ci' = ci + 1
    /\ DryLoopFrame

\* the candidates of the dry run are exhausted, the connection is closed
dry_run_end ==
    /\ pc = "next"
    /\ ci > Len(cand)
    /\ pc' = "done"
    /\ UNCHANGED << db, work, driver, command, filters, cand, ci, done, calls,
                    crashed >>
    /\ DryFrame

DryNext ==
    \/ \E drv \in Drivers, f \in Filters, c \in BOOLEAN :
          main_up_dry_run(drv, f, c)
    \/ \E drv \in Drivers, f \in Filters \ {FilterAll} :
          main_rollback_dry_run(drv, f)
    \/ load_migrations_skip
    \/ pending_migrations_dry_yield
    \/ pending_migrations_dry_applied
    \/ load_migrations_dry_yield
    \/ dry_run_end

SpecDry == DryInit /\ [][DryNext]_vars

\* the calls that change the state of the database
StateChanging(e) ==
    e.op \in {"begin", "commit", "rollback", "execute", "insert", "delete"}

\* C24: with --dry-run, up and rollback send no state-changing statement
\* to the database (no CREATE, no migration statement, no ledger write, no
\* begin or commit), and the database and the ledger are after the
\* invocation as they were before, whatever the other options.
C24_DryRun ==
    command \in {"up --dry-run", "rollback --dry-run"} =>
        /\ driver # "fake" => \A i \in DOMAIN calls : ~StateChanging(calls[i])
        /\ db = db0

-----------------------------------------------------------------------------
(* The batch of an Up invocation *)

\* the names pending_migrations yielded to apply_migrations, in order
RECURSIVE Batch(_)
Batch(c) ==
    IF c = <<>> THEN <<>>
    ELSE (IF Head(c).op = "lookup" /\ Head(c).res \in {"pending", "raise"}
          THEN << Head(c).name >> ELSE <<>>)
             \o Batch(Tail(c))

\* the migration is pending when the invocation starts
PendingAtStart(n) ==
    LET d == IF driver = "fake" THEN FakeDb ELSE db0
    IN  ~d.exists \/ is_pending(d, n, read_migration(n))

\* C25: in an Up invocation with a Count(N) filter that ran to its end, the
\* batch handed to apply_migrations is the first min(N, number of pending
\* migrations) pending migrations, in order: migrations already applied do
\* not use up the count.
C25_CountPending ==
    (command = "up" /\ pc = "done" /\ ~RunFailed /\ filters.count # None) =>
        LET pending == SelectSeq(cand, PendingAtStart)
        IN  Batch(calls) =
                SubSeq(pending, 1, Min(filters.count[1], Len(pending)))

-----------------------------------------------------------------------------
(* hash_migration, through the command record *)

\* the statement lists a section of the sample migrations can hold
SectionLists == { <<>>, << <<"a">> >>, << <<"b">> >>, << <<"a">>, <<"b">> >> }

\* the migrations read_migration can return for the sample files
HashMigrations ==
    [prolog : SectionLists, up : SectionLists, down : SectionLists,
     epilog : { <<>>, << <<"b">> >> }]

\* the two files of the directory
HashNames == 1..2

HashInit ==
    /\ files \in [HashNames -> HashMigrations]
    /\ db = [exists |-> TRUE, rows |-> NoRows, data |-> {}]
    /\ work = db
    /\ pc = "idle"
    /\ driver = "mysql"
    /\ command = "none"
    /\ one_transaction = FALSE
    /\ template = EmptyTemplate
    /\ filters = FilterAll
    /\ cand = <<>>
    /\ ci = 1
    /\ done = 0
    /\ name = 0
    /\ qi = 1
    /\ calls = <<>>
    /\ clock = 0
    /\ runs = 0
    /\ db0 = db
    /\ prev = NoSummary
    /\ crashed = FALSE
    /\ ToolsIdle

\* what the command record leaves alone
RecordFrame ==
    UNCHANGED << toolVars, files, driver, one_transaction, template, filters,
                 name, qi, clock, runs, db0, prev, crashed >>

\* main, command record: autocommit, then insert_migration for each of
\* pending_migrations
main_record ==
    /\ pc = "idle"
    /\ command' = "record"
    /\ cand' = list_directory
    /\ ci' = 1
    /\ done' = 0
    /\ calls' = <<>>
    /\ pc' = "next"
    /\ UNCHANGED << db, work >>
    /\ RecordFrame

\* the loop body of record: the pending migration is recorded with its
\* hash and its name is printed
record_insert_migration ==
    /\ pc = "next"
    /\ command = "record"
    /\ ci <= Len(cand)
    /\ is_pending(work, cand[ci], read_migration(cand[ci]))
    /\ db' = InsertRow(work, cand[ci],
                       hash_migration(read_migration(cand[ci])), clock)
    /\ work' = db'
    /\ calls' = Append2(Append(calls,
                            Entry("lookup", cand[ci], <<>>, "pending")),
                        Entry("insert", cand[ci], <<>>, "ok"),
                        Entry("print", cand[ci], <<>>, "ok"))
    /\ done' = done + 1
    /\ ci' = ci + 1
    /\ UNCHANGED << command, cand, pc >>
    /\ RecordFrame

\* the loop of record ends
record_end ==
    /\ pc = "next"
    /\ command = "record"
    /\ ci > Len(cand)
    /\ pc' = "done"
    /\ UNCHANGED << db, work, command, cand, ci, done, calls >>
    /\ RecordFrame

HashNext ==
    \/ main_record
    \/ record_insert_migration
    \/ record_end

SpecHash == HashInit /\ [][HashNext]_vars

\* the four hashed sections of a migration
Sections(m) ==
    << Get(m, "prolog"), Get(m, "up"), Get(m, "down"), Get(m, "epilog") >>

\* C26: the text hash_migration feeds to the digest determines the four
\* hashed sections: two recorded migrations whose prolog, up, down or
\* epilog statement lists differ are recorded with different hashes.
C26_HashSeesSections ==
    command = "record" =>
        \A a, b \in DOMAIN db.rows :
            Sections(files[a]) # Sections(files[b]) =>
                db.rows[a].hash # db.rows[b].hash

====
